---------------------------- MODULE Spec2Model ----------------------------
(***************************************************************************)
(* A model of droneapp/models/drone_manager.py (class DroneManager): the   *)
(* command channel (_send_command under _command_semaphore), the response  *)
(* listener, stop(), the frame loop with face tracking, patrol and         *)
(* snapshot.  Every thread of the program is a process of the model; one   *)
(* action is one step of a thread between two points where another thread  *)
(* can observe or change the shared attributes of the DroneManager.        *)
(***************************************************************************)
EXTENDS Integers, Sequences, FiniteSets, TLC

(***************************************************************************)
(* Bounds of the model (not program constants).                            *)
(***************************************************************************)
\* dispatch threads (_send_command) started over a run, the three of
\* __init__ included
MaxDispatch == 4
\* patrol threads (_patrol) started over a run
MaxPatrolThreads == 2
\* front-end threads that call patrol() at the same time
MaxCallers == 2

(***************************************************************************)
(* Program constants.                                                      *)
(***************************************************************************)
DEFAULT_SPEED == 10
FRAME_X == 320
FRAME_Y == 240
FRAME_AREA == FRAME_X * FRAME_Y
FRAME_SIZE == FRAME_AREA * 3
\* `if retry > 3: break' of _send_command's wait loop
SEND_RETRY == 3
\* `if retry > 100: break' of stop()'s wait for the listener
STOP_RETRY == 100
\* `while retry < 10' of snapshot()
SNAPSHOT_RETRY == 10

\* self.response is None
NoData == [none |-> TRUE]
\* self.response is the bytes of a datagram, valid UTF-8 or not.
\* before_send: the datagram was in the slot already when the dispatch that
\* holds the permit sent its command
Data(utf8) == [none |-> FALSE, utf8 |-> utf8, before_send |-> FALSE]
\* the slot as a dispatch that has just sent finds it
AtSend(r) == IF r.none THEN r ELSE [r EXCEPT !.before_send = TRUE]

\* a command text, as the operation and its numeric arguments
Cmd(op, args) == [op |-> op, args |-> args]
\* lines 116-119: send_command('command'), send_command('streamon'),
\* set_speed(self.speed)
StartupCmds == << Cmd("command", <<>>), Cmd("streamon", <<>>),
                  Cmd("speed", <<DEFAULT_SPEED>>) >>
\* the texts external callers send (main.py passes any line typed)
ExternalCmds == { Cmd("takeoff", <<>>) }

VARIABLES
    sem,         \* value of _command_semaphore
    response,    \* self.response: NoData, or the datagram received last
    sock,        \* self.socket: "none" (not created), "open" or "closed"
    stop_event,  \* stop_event.is_set()
    listener,    \* _response_thread_from_drone: "none", "check", "recv", "dead"
    arrived,     \* whether a datagram was ever received on the command socket
    disp,        \* the dispatch threads that run, by the number of their start
    spawned,     \* dispatch threads started so far
    wire,        \* the commands sent on the command socket, in order
    stopper,     \* the thread running stop(): its position, retry and outcome;
                 \* again: the running call found the stop signal set by an
                 \* earlier call
    face_detect, \* self._is_enable_face_detect
    is_patrol,   \* self.is_patrol
    is_snapshot, \* self.is_snapshot
    patrol_sem,  \* value of _patrol_semaphore
    pthreads,    \* the patrol threads (_patrol), in the order they were started
    callers,     \* the front-end threads that call patrol()
    stop_patrol_ret, \* how the last external call of stop_patrol() ended
    snap,        \* the front-end thread that calls snapshot()
    frame_loop,  \* the consumer of video_jpeg_generator(), and its current frame
    video,       \* _receive_video_thread: "none", "check", "recv", "write", "dead"
    ctor,        \* the thread running __init__: its position and the error raised
    producer     \* video_binary_generator: its position and the bytes last read

vars == << sem, response, sock, stop_event, listener, arrived, disp, spawned, wire, stopper, face_detect, is_patrol, is_snapshot, patrol_sem, pthreads, callers, stop_patrol_ret, snap, frame_loop, video, ctor, producer >>

(***************************************************************************)
(* The command channel: send_command / _send_command.                      *)
(***************************************************************************)
\* the thread send_command creates, _send_command(command, blocking) about to
\* run.  result: what the call ends with.
NewDispatch(command, blocking) ==
    [ pc |-> "acquire", cmd |-> command, blocking |-> blocking,
      retry |-> 0, result |-> "running" ]

\* send_command(command, blocking) for each command of cmds in turn: a
\* thread is started per call, the call returns at once
send_command(cmds, blocking) ==
    [ i \in DOMAIN disp \cup (spawned + 1 .. spawned + Len(cmds)) |->
        IF i \in DOMAIN disp THEN disp[i]
        ELSE NewDispatch(cmds[i - spawned], blocking) ]

Threads == DOMAIN disp

\* the dispatches between acquire() and release()
Holders == { d \in Threads : disp[d].pc \in {"send", "poll", "read", "clear", "release"} }

\* the thread d ends: it leaves disp
Ended(d) == disp' = [ i \in DOMAIN disp \ {d} |-> disp[i] ]

\* variant: the permit is handed out whatever the count
CanAcquire_NoCount == TRUE

\* _command_semaphore.acquire(): TRUE when the permit can be taken now
CanAcquire == sem > 0

\* variant: the blocking flag is not passed on to acquire(): every dispatch
\* waits for the permit
DispAcquire_AlwaysWaits(d) ==
    /\ disp[d].pc = "acquire"
    /\ CanAcquire
    /\ sem' = sem - 1
    /\ disp' = [disp EXCEPT ![d].pc = "send"]
    /\ UNCHANGED << response, sock, stop_event, listener, arrived, spawned,
                    wire, stopper, face_detect, is_patrol, is_snapshot,
                    patrol_sem, pthreads, callers, stop_patrol_ret, snap,
                    frame_loop, video, ctor, producer >>

\* `is_acquire = self._command_semaphore.acquire(blocking=blocking)': a
\* blocking acquire waits for the permit; a non-blocking one that finds it
\* taken returns False, and the call logs and returns
DispAcquire(d) ==
    /\ disp[d].pc = "acquire"
    /\ IF CanAcquire
          THEN /\ sem' = sem - 1
               /\ disp' = [disp EXCEPT ![d].pc = "send"]
          ELSE /\ ~disp[d].blocking
               /\ sem' = sem
               /\ disp' = [disp EXCEPT ![d].pc = "dropped", ![d].result = "dropped"]
    /\ UNCHANGED << response, sock, stop_event, listener, arrived, spawned,
                    wire, stopper, face_detect, is_patrol, is_snapshot,
                    patrol_sem, pthreads, callers, stop_patrol_ret, snap,
                    frame_loop, video, ctor, producer >>

\* `else: logger.warning(... 'is_not_acquired')', and the thread ends
DispDropped(d) ==
    /\ disp[d].pc = "dropped"
    /\ Ended(d)
    /\ UNCHANGED << sem, response, sock, stop_event, listener, arrived,
                    spawned, wire, stopper, face_detect, is_patrol,
                    is_snapshot, patrol_sem, pthreads, callers,
                    stop_patrol_ret, snap, frame_loop, video, ctor, producer >>

\* variant: release() called at the end of the function body, not as an exit
\* callback: an exception of sendto ends the thread with the permit taken
DispSend_NoExitCallback(d) ==
    /\ disp[d].pc = "send"
    /\ IF sock = "open"
          THEN /\ wire' = Append(wire, disp[d].cmd)
               /\ response' = AtSend(response)
               /\ disp' = [disp EXCEPT ![d].pc = "poll"]
          ELSE /\ wire' = wire
               /\ response' = response
               /\ Ended(d)
    /\ UNCHANGED << sem, sock, stop_event, listener, arrived, spawned, stopper,
                    face_detect, is_patrol, is_snapshot, patrol_sem, pthreads,
                    callers, stop_patrol_ret, snap, frame_loop, video, ctor,
                    producer >>

\* `self.socket.sendto(command.encode('utf-8'), self.drone_address)': it
\* raises OSError on a closed socket; the exception leaves the with block,
\* whose callback runs (pc "release")
DispSend(d) ==
    /\ disp[d].pc = "send"
    /\ IF sock = "open"
          THEN /\ wire' = Append(wire, disp[d].cmd)
               /\ response' = AtSend(response)
               /\ disp' = [disp EXCEPT ![d].pc = "poll"]
          ELSE /\ wire' = wire
               /\ response' = response
               /\ disp' = [disp EXCEPT ![d].pc = "release", ![d].result = "raised"]
    /\ UNCHANGED << sem, sock, stop_event, listener, arrived, spawned, stopper,
                    face_detect, is_patrol, is_snapshot, patrol_sem, pthreads,
                    callers, stop_patrol_ret, snap, frame_loop, video, ctor,
                    producer >>

\* variant: the wait loop without its retry bound
DispPoll_Unbounded(d) ==
    /\ disp[d].pc = "poll"
    /\ response # NoData
    /\ disp' = [disp EXCEPT ![d].pc = "read"]
    /\ UNCHANGED << sem, response, sock, stop_event, listener, arrived,
                    spawned, wire, stopper, face_detect, is_patrol,
                    is_snapshot, patrol_sem, pthreads, callers,
                    stop_patrol_ret, snap, frame_loop, video, ctor, producer >>

\* one turn of `while self.response is None: sleep; if retry > 3: break;
\* retry += 1'
DispPoll(d) ==
    /\ disp[d].pc = "poll"
    /\ IF response # NoData
          THEN disp' = [disp EXCEPT ![d].pc = "read"]
          ELSE IF disp[d].retry > SEND_RETRY
                  THEN disp' = [disp EXCEPT ![d].pc = "read"]
                  ELSE disp' = [disp EXCEPT ![d].retry = @ + 1]
    /\ UNCHANGED << sem, response, sock, stop_event, listener, arrived,
                    spawned, wire, stopper, face_detect, is_patrol,
                    is_snapshot, patrol_sem, pthreads, callers,
                    stop_patrol_ret, snap, frame_loop, video, ctor, producer >>

\* `if self.response is None: response = None / else: response =
\* self.response.decode('utf-8')': decode raises UnicodeDecodeError on bytes
\* that are not UTF-8, which skips `self.response = None'
DispRead(d) ==
    /\ disp[d].pc = "read"
    /\ IF response = NoData
          THEN disp' = [disp EXCEPT ![d].pc = "clear", ![d].result = "none"]
          ELSE IF response.utf8
                  THEN disp' = [disp EXCEPT ![d].pc = "clear", ![d].result = "data"]
                  ELSE disp' = [disp EXCEPT ![d].pc = "release", ![d].result = "raised"]
    /\ UNCHANGED << sem, response, sock, stop_event, listener, arrived,
                    spawned, wire, stopper, face_detect, is_patrol,
                    is_snapshot, patrol_sem, pthreads, callers,
                    stop_patrol_ret, snap, frame_loop, video, ctor, producer >>

\* `self.response = None'
DispClear(d) ==
    /\ disp[d].pc = "clear"
    /\ response' = NoData
    /\ disp' = [disp EXCEPT ![d].pc = "release"]
    /\ UNCHANGED << sem, sock, stop_event, listener, arrived, spawned, wire,
                    stopper, face_detect, is_patrol, is_snapshot, patrol_sem,
                    pthreads, callers, stop_patrol_ret, snap, frame_loop,
                    video, ctor, producer >>

\* leaving `with contextlib.ExitStack() as stack': the callback
\* self._command_semaphore.release runs, on return and on exception alike,
\* and the thread ends
DispRelease(d) ==
    /\ disp[d].pc = "release"
    /\ sem' = sem + 1
    /\ Ended(d)
    /\ UNCHANGED << response, sock, stop_event, listener, arrived, spawned,
                    wire, stopper, face_detect, is_patrol, is_snapshot,
                    patrol_sem, pthreads, callers, stop_patrol_ret, snap,
                    frame_loop, video, ctor, producer >>

\* an external caller (main.py, the front-end) calls
\* send_command(command, blocking)
ExternalSend(command, blocking) ==
    /\ spawned < MaxDispatch
    /\ disp' = send_command(<< command >>, blocking)
    /\ spawned' = spawned + 1
    /\ UNCHANGED << sem, response, sock, stop_event, listener, arrived, wire,
                    stopper, face_detect, is_patrol, is_snapshot, patrol_sem,
                    pthreads, callers, stop_patrol_ret, snap, frame_loop,
                    video, ctor, producer >>

(***************************************************************************)
(* The response listener: receive_response_from_drone.                     *)
(***************************************************************************)
\* `while not stop_event.is_set()'
ListenerCheck ==
    /\ listener = "check"
    /\ listener' = IF stop_event THEN "dead" ELSE "recv"
    /\ UNCHANGED << sem, response, sock, stop_event, arrived, disp, spawned,
                    wire, stopper, face_detect, is_patrol, is_snapshot,
                    patrol_sem, pthreads, callers, stop_patrol_ret, snap,
                    frame_loop, video, ctor, producer >>

\* `self.response, ip = self.socket.recvfrom(3000)' returns a datagram; its
\* bytes are valid UTF-8 or not
ListenerRecv(utf8) ==
    /\ listener = "recv"
    /\ sock = "open"
    /\ arrived' = TRUE
    /\ response' = Data(utf8)
    /\ listener' = "check"
    /\ UNCHANGED << sem, sock, stop_event, disp, spawned, wire, stopper,
                    face_detect, is_patrol, is_snapshot, patrol_sem, pthreads,
                    callers, stop_patrol_ret, snap, frame_loop, video, ctor,
                    producer >>

\* recvfrom raises socket.error once the socket is closed under it (whether
\* a close wakes a blocked recvfrom depends on the platform: the step may
\* never be taken)
ListenerError ==
    /\ listener = "recv"
    /\ sock = "closed"
    /\ listener' = "dead"
    /\ UNCHANGED << sem, response, sock, stop_event, arrived, disp, spawned,
                    wire, stopper, face_detect, is_patrol, is_snapshot,
                    patrol_sem, pthreads, callers, stop_patrol_ret, snap,
                    frame_loop, video, ctor, producer >>

(***************************************************************************)
(* stop().                                                                 *)
(***************************************************************************)
\* `self.stop_event.set()', on entry to stop(); stop() is called any number
\* of times, one call after the other (an explicit call, then __del__)
StopBegin ==
    /\ stopper.pc = "idle"
    /\ stop_event' = TRUE
    /\ stopper' = [pc |-> "wait", retry |-> 0, ret |-> "running",
                   again |-> stop_event]
    /\ UNCHANGED << sem, response, sock, listener, arrived, disp, spawned,
                    wire, face_detect, is_patrol, is_snapshot, patrol_sem,
                    pthreads, callers, stop_patrol_ret, snap, frame_loop,
                    video, ctor, producer >>

\* `while self._response_thread_from_drone.is_alive(): sleep; if retry > 100:
\* break; retry += 1', to its end.  A poll that finds the listener alive
\* changes retry alone, so the polls of one wait are taken as one step: the
\* loop ends at the poll that finds the listener dead, or it ends with
\* retry = 101 after 102 polls that all found it alive.
StopWait ==
    /\ stopper.pc = "wait"
    /\ IF listener = "dead"
          THEN stopper' = [stopper EXCEPT !.pc = "close"]
          ELSE stopper' = [stopper EXCEPT !.pc = "close", !.retry = STOP_RETRY + 1]
    /\ UNCHANGED << sem, response, sock, stop_event, listener, arrived, disp,
                    spawned, wire, face_detect, is_patrol, is_snapshot,
                    patrol_sem, pthreads, callers, stop_patrol_ret, snap,
                    frame_loop, video, ctor, producer >>

\* `self.socket.close()'
StopClose ==
    /\ stopper.pc = "close"
    /\ sock' = "closed"
    /\ stopper' = [stopper EXCEPT !.pc = "kill"]
    /\ UNCHANGED << sem, response, stop_event, listener, arrived, disp,
                    spawned, wire, face_detect, is_patrol, is_snapshot,
                    patrol_sem, pthreads, callers, stop_patrol_ret, snap,
                    frame_loop, video, ctor, producer >>

\* `os.kill(self.proc.pid, signal.CTRL_C_EVENT)': signal.CTRL_C_EVENT exists on
\* Windows only (AttributeError elsewhere), and os.kill raises OSError when
\* the decoder process is gone; so the call returns or raises
StopKill(raises) ==
    /\ stopper.pc = "kill"
    /\ stopper' = [stopper EXCEPT !.pc = "idle", !.retry = 0, !.again = FALSE,
                                  !.ret = IF raises THEN "raised" ELSE "returned"]
    /\ UNCHANGED << sem, response, sock, stop_event, listener, arrived, disp,
                    spawned, wire, face_detect, is_patrol, is_snapshot,
                    patrol_sem, pthreads, callers, stop_patrol_ret, snap,
                    frame_loop, video, ctor, producer >>

(***************************************************************************)
(* patrol(), _patrol(), stop_patrol().                                     *)
(***************************************************************************)
\* self.patrol_event: set to None in __init__ and assigned nowhere else
patrol_event == "None"

PThreads == 1 .. Len(pthreads)
Callers == 1 .. MaxCallers

\* `if not self.is_patrol:' of patrol(), else the log line
PatrolCall(c) ==
    /\ callers[c].pc = "idle"
    /\ IF ~is_patrol
          THEN /\ Len(pthreads) + Cardinality({ k \in Callers : callers[k].pc = "start" })
                     < MaxPatrolThreads
               /\ callers' = [callers EXCEPT ![c].pc = "start", ![c].ret = "running"]
          ELSE callers' = [callers EXCEPT ![c].ret = "already"]
    /\ UNCHANGED << sem, response, sock, stop_event, listener, arrived, disp,
                    spawned, wire, stopper, face_detect, is_patrol,
                    is_snapshot, patrol_sem, pthreads, stop_patrol_ret, snap,
                    frame_loop, video, ctor, producer >>

\* `self._thread_patrol = threading.Thread(target=self._patrol, ...)' and
\* `self._thread_patrol.start()'
PatrolStart(c) ==
    /\ callers[c].pc = "start"
    /\ pthreads' = Append(pthreads, [pc |-> "acquire", end |-> "running"])
    /\ callers' = [callers EXCEPT ![c].pc = "set"]
    /\ UNCHANGED << sem, response, sock, stop_event, listener, arrived, disp,
                    spawned, wire, stopper, face_detect, is_patrol,
                    is_snapshot, patrol_sem, stop_patrol_ret, snap, frame_loop,
                    video, ctor, producer >>

\* `self.is_patrol = True'
PatrolSet(c) ==
    /\ callers[c].pc = "set"
    /\ is_patrol' = TRUE
    /\ callers' = [callers EXCEPT ![c].pc = "idle", ![c].ret = "started"]
    /\ UNCHANGED << sem, response, sock, stop_event, listener, arrived, disp,
                    spawned, wire, stopper, face_detect, is_snapshot,
                    patrol_sem, pthreads, stop_patrol_ret, snap, frame_loop,
                    video, ctor, producer >>

\* variant: the patrol permit is handed out whatever the count
PatrolCanAcquire_NoCount == TRUE

\* patrol_semaphore.acquire(blocking=False): TRUE when the permit can be taken
PatrolCanAcquire == patrol_sem > 0

\* `is_acquire = patrol_semaphore.acquire(blocking=False)', else the log line
PatrolAcquire(t) ==
    /\ pthreads[t].pc = "acquire"
    /\ IF PatrolCanAcquire
          THEN /\ patrol_sem' = patrol_sem - 1
               /\ pthreads' = [pthreads EXCEPT ![t].pc = "with"]
          ELSE /\ patrol_sem' = patrol_sem
               /\ pthreads' = [pthreads EXCEPT ![t].pc = "done", ![t].end = "refused"]
    /\ UNCHANGED << sem, response, sock, stop_event, listener, arrived, disp,
                    spawned, wire, stopper, face_detect, is_patrol,
                    is_snapshot, callers, stop_patrol_ret, snap, frame_loop,
                    video, ctor, producer >>

\* `with contextlib.ExitStack as stack:': the class, not an instance of it,
\* is no context manager, so the statement raises (AttributeError __enter__,
\* TypeError from Python 3.11) before the callback is registered and before
\* the maneuver loop: the thread ends, the permit stays taken
PatrolEnter(t) ==
    /\ pthreads[t].pc = "with"
    /\ pthreads' = [pthreads EXCEPT ![t].pc = "done", ![t].end = "raised"]
    /\ UNCHANGED << sem, response, sock, stop_event, listener, arrived, disp,
                    spawned, wire, stopper, face_detect, is_patrol,
                    is_snapshot, patrol_sem, callers, stop_patrol_ret, snap,
                    frame_loop, video, ctor, producer >>

\* stop_patrol(): with is_patrol set, `self.patrol_event.set()' is evaluated
\* on patrol_event = None and raises AttributeError, before the wait and
\* before `self.is_patrol = False'; with is_patrol clear it does nothing.
\* The outcome: whether it raised, and is_patrol when it ends.
stop_patrol ==
    IF is_patrol
       THEN IF patrol_event = "None"
               THEN [raised |-> TRUE, is_patrol |-> is_patrol]
               ELSE [raised |-> FALSE, is_patrol |-> FALSE]
       ELSE [raised |-> FALSE, is_patrol |-> is_patrol]

\* the front-end calls stop_patrol()
StopPatrolCall ==
    /\ is_patrol' = stop_patrol.is_patrol
    /\ stop_patrol_ret' = IF stop_patrol.raised THEN "raised"
                          ELSE IF is_patrol THEN "stopped" ELSE "noop"
    /\ UNCHANGED << sem, response, sock, stop_event, listener, arrived, disp,
                    spawned, wire, stopper, face_detect, is_snapshot,
                    patrol_sem, pthreads, callers, snap, frame_loop, video,
                    ctor, producer >>

(***************************************************************************)
(* snapshot().                                                             *)
(***************************************************************************)
\* `self.is_snapshot = True; retry = 0'
SnapshotCall ==
    /\ snap.pc = "idle"
    /\ is_snapshot' = TRUE
    /\ snap' = [pc |-> "loop", retry |-> 0, ret |-> "running", checks |-> 0, idle |-> 0]
    /\ UNCHANGED << sem, response, sock, stop_event, listener, arrived, disp,
                    spawned, wire, stopper, face_detect, is_patrol, patrol_sem,
                    pthreads, callers, stop_patrol_ret, frame_loop, video,
                    ctor, producer >>

\* variant: one check too many
SnapshotContinues_OffByOne(retry) == retry <= SNAPSHOT_RETRY

\* `while retry < 10'
SnapshotContinues(retry) == retry < SNAPSHOT_RETRY

\* one turn of `while retry < 10: if not self.is_patrol: return True;
\* sleep; retry += 1', and `return False' after it.  checks and idle count
\* the reads of is_patrol and those that found it clear.
SnapshotCheck ==
    /\ snap.pc = "loop"
    /\ IF SnapshotContinues(snap.retry)
          THEN IF ~is_patrol
                  THEN snap' = [snap EXCEPT !.pc = "idle", !.ret = "true",
                                            !.checks = @ + 1, !.idle = @ + 1]
                  ELSE snap' = [snap EXCEPT !.retry = @ + 1, !.checks = @ + 1]
          ELSE snap' = [snap EXCEPT !.pc = "idle", !.ret = "false"]
    /\ UNCHANGED << sem, response, sock, stop_event, listener, arrived, disp,
                    spawned, wire, stopper, face_detect, is_patrol,
                    is_snapshot, patrol_sem, pthreads, callers,
                    stop_patrol_ret, frame_loop, video, ctor, producer >>

(***************************************************************************)
(* The frame loop: video_jpeg_generator, and the face tracking in it.      *)
(***************************************************************************)
\* self.speed, the speed the session was constructed with
speed == DEFAULT_SPEED

\* a detection rectangle (x, y, width, height) of detectMultiScale
Rect(x, y, w, h) == [x |-> x, y |-> y, w |-> w, h |-> h]

\* variant: the lateral band closed at its ends: >= and <= for > and <
GoCommand_ClosedBand(r) ==
    LET diff_x2 == FRAME_X - (2 * r.x + r.w)
        diff_y2 == FRAME_Y - (2 * r.y + r.h)
        face_area == r.w * r.h
        y1 == IF diff_x2 <= -60 THEN -30 ELSE 0
        y2 == IF diff_x2 >= 60 THEN 30 ELSE y1
        z1 == IF diff_y2 < -30 THEN -30 ELSE 0
        z2 == IF diff_y2 > 30 THEN 30 ELSE z1
        x1 == IF 100 * face_area > 30 * FRAME_AREA THEN -30 ELSE 0
        x2 == IF 100 * face_area < 2 * FRAME_AREA THEN 30 ELSE x1
    IN  Cmd("go", << x2, y2, z2, DEFAULT_SPEED >>)

\* the corrective command of one rectangle, lines 346-366.  The source
\* computes in floats: face_center = x + width / 2 and diff = FRAME_CENTER -
\* face_center are exact multiples of 0.5, compared here doubled;
\* percent_face = face_area / FRAME_AREA is compared with 0.30 and 0.02,
\* which for an integer area decides as 100 * area against 30 * FRAME_AREA
\* and 2 * FRAME_AREA.  The six `if's run in the order of the source.
GoCommand(r) ==
    LET diff_x2 == FRAME_X - (2 * r.x + r.w)
        diff_y2 == FRAME_Y - (2 * r.y + r.h)
        face_area == r.w * r.h
        y1 == IF diff_x2 < -60 THEN -30 ELSE 0
        y2 == IF diff_x2 > 60 THEN 30 ELSE y1
        z1 == IF diff_y2 < -30 THEN -30 ELSE 0
        z2 == IF diff_y2 > 30 THEN 30 ELSE z1
        x1 == IF 100 * face_area > 30 * FRAME_AREA THEN -30 ELSE 0
        x2 == IF 100 * face_area < 2 * FRAME_AREA THEN 30 ELSE x1
    IN  Cmd("go", << x2, y2, z2, speed >>)

\* `for (x, y, width, height) in faces: ... send_command(...); break': the
\* commands one frame's detections lead to
TrackCmds(faces) ==
    IF faces = << >> THEN << >> ELSE << GoCommand(faces[1]) >>

\* variant: the blocking argument left out: send_command's default
TrackBlocking_Default == TRUE

\* the blocking argument of the frame loop's send_command call
TrackBlocking == FALSE

\* the frame loop between two frames
FrameIdle == [pc |-> "next", enabled |-> FALSE, preempt |-> "none",
              faces |-> << >>, sent |-> << >>]

\* the sizes a read of the decoder's output can have: nothing (end of
\* file), a part of a frame (end of file inside a frame), a frame
ReadSizes == {0, 1, FRAME_SIZE - 1, FRAME_SIZE}

\* `np.fromstring(frame, np.uint8).reshape(FRAME_Y, FRAME_X, 3)' succeeds
\* on that many bytes and on no other number (ValueError)
Reshapes(n) == n = FRAME_Y * FRAME_X * 3

\* video_binary_generator, asked for the next frame:
\* `frame = self.proc_stdout.read(FRAME_SIZE)' raises; the except branch
\* logs and goes back to the read
ProducerReadError ==
    /\ frame_loop.pc = "next"
    /\ producer.pc = "read"
    /\ producer' = [producer EXCEPT !.size = -1]
    /\ UNCHANGED << sem, response, sock, stop_event, listener, arrived, disp,
                    spawned, wire, stopper, face_detect, is_patrol,
                    is_snapshot, patrol_sem, pthreads, callers,
                    stop_patrol_ret, snap, frame_loop, video, ctor >>

\* video_binary_generator, asked for the next frame: the read returns n
\* bytes.  `if not frame: continue'; else the reshape, which is outside the
\* try: its exception leaves video_binary_generator and, through the for
\* statement, video_jpeg_generator, and both generators are finished; else
\* `yield frame'
ProducerRead(n) ==
    /\ frame_loop.pc = "next"
    /\ producer.pc = "read"
    /\ IF n = 0
          THEN /\ producer' = [producer EXCEPT !.size = n]
               /\ frame_loop' = frame_loop
          ELSE IF Reshapes(n)
                  THEN /\ producer' = [pc |-> "yield", size |-> n]
                       /\ frame_loop' = frame_loop
                  ELSE /\ producer' = [pc |-> "crashed", size |-> n]
                       /\ frame_loop' = [frame_loop EXCEPT !.pc = "crashed"]
    /\ UNCHANGED << sem, response, sock, stop_event, listener, arrived, disp,
                    spawned, wire, stopper, face_detect, is_patrol,
                    is_snapshot, patrol_sem, pthreads, callers,
                    stop_patrol_ret, snap, video, ctor >>

\* `for frame in self.video_binary_generator():' receives the frame, and
\* `if self._is_enable_face_detect:'
FrameCheck ==
    /\ frame_loop.pc = "next"
    /\ producer.pc = "yield"
    /\ producer' = [producer EXCEPT !.pc = "read"]
    /\ frame_loop' = [frame_loop EXCEPT !.enabled = face_detect,
                                        !.pc = IF face_detect THEN "patrol" ELSE "yield"]
    /\ UNCHANGED << sem, response, sock, stop_event, listener, arrived, disp,
                    spawned, wire, stopper, face_detect, is_patrol,
                    is_snapshot, patrol_sem, pthreads, callers,
                    stop_patrol_ret, snap, video, ctor >>

\* `if self.is_patrol: self.stop_patrol()': an exception of stop_patrol leaves
\* the generator, which ends it
FramePatrol ==
    /\ frame_loop.pc = "patrol"
    /\ IF is_patrol
          THEN /\ is_patrol' = stop_patrol.is_patrol
               /\ frame_loop' = IF stop_patrol.raised
                                   THEN [frame_loop EXCEPT !.pc = "crashed",
                                                           !.preempt = "raised"]
                                   ELSE [frame_loop EXCEPT !.pc = "detect",
                                                           !.preempt = "stopped"]
          ELSE /\ is_patrol' = is_patrol
               /\ frame_loop' = [frame_loop EXCEPT !.pc = "detect"]
    /\ UNCHANGED << sem, response, sock, stop_event, listener, arrived, disp,
                    spawned, wire, stopper, face_detect, is_snapshot,
                    patrol_sem, pthreads, callers, stop_patrol_ret, snap,
                    video, ctor, producer >>

\* `faces = self.face_cascade.detectMultiScale(gray, 1.3, 6)' and the for
\* loop over faces: each command is handed to send_command(..., blocking=False).
\* sent: the calls of send_command this frame made.
FrameDetect(faces) ==
    /\ frame_loop.pc = "detect"
    /\ LET cmds == TrackCmds(faces)
       IN  /\ cmds = << >> \/ spawned < MaxDispatch
           /\ disp' = send_command(cmds, TrackBlocking)
           /\ spawned' = spawned + Len(cmds)
           /\ frame_loop' = [frame_loop EXCEPT
                                 !.pc = "yield", !.faces = faces,
                                 !.sent = [ i \in 1 .. Len(cmds) |->
                                             [cmd |-> cmds[i], blocking |-> TrackBlocking] ]]
    /\ UNCHANGED << sem, response, sock, stop_event, listener, arrived, wire,
                    stopper, face_detect, is_patrol, is_snapshot, patrol_sem,
                    pthreads, callers, stop_patrol_ret, snap, video, ctor,
                    producer >>

\* imencode, `if self.is_snapshot:' (the two files are written and the flag
\* is cleared) and `yield jpeg_binary'; the consumer then asks for the next
FrameYield ==
    /\ frame_loop.pc = "yield"
    /\ is_snapshot' = FALSE
    /\ frame_loop' = FrameIdle
    /\ UNCHANGED << sem, response, sock, stop_event, listener, arrived, disp,
                    spawned, wire, stopper, face_detect, is_patrol, patrol_sem,
                    pthreads, callers, stop_patrol_ret, snap, video, ctor,
                    producer >>

\* enable_face_detect() / disable_face_detect()
SetFaceDetect(on) ==
    /\ face_detect' = on
    /\ UNCHANGED << sem, response, sock, stop_event, listener, arrived, disp,
                    spawned, wire, stopper, is_patrol, is_snapshot, patrol_sem,
                    pthreads, callers, stop_patrol_ret, snap, frame_loop,
                    video, ctor, producer >>

(***************************************************************************)
(* The detections the model feeds the frame loop.                          *)
(***************************************************************************)
\* far left and large; centred and of middle size
RectA == Rect(0, 90, 200, 120)
RectB == Rect(110, 70, 100, 100)
Detections == { << >>, << RectA >>, << RectB, RectA >> }

\* rectangles at and beside every threshold of GoCommand: sizes at, below
\* and above 2% and 30% of the frame area, and for each size the positions
\* that put twice the centre at, one below and one above each band end
GoSizes == { << 31, 48 >>, << 32, 48 >>, << 33, 47 >>, << 100, 100 >>,
             << 144, 160 >>, << 145, 160 >>, << 160, 144 >>, << 161, 144 >> }
GoCentreX2 == { 258, 259, 260, 261, 262, 320, 321, 378, 379, 380, 381, 382 }
GoCentreY2 == { 208, 209, 210, 211, 212, 240, 241, 268, 269, 270, 271, 272 }
GoOrigins(size, centres2, frame) ==
    { p \in { (c - size) \div 2 : c \in centres2 } :
        p >= 0 /\ p + size <= frame /\ 2 * p + size \in centres2 }
GoRects ==
    UNION { { Rect(x, y, s[1], s[2]) : x \in GoOrigins(s[1], GoCentreX2, FRAME_X),
                                       y \in GoOrigins(s[2], GoCentreY2, FRAME_Y) }
            : s \in GoSizes }
GoDetections == { << >> } \cup { << r >> : r \in GoRects }

(***************************************************************************)
(* The video receiver: receive_video.                                      *)
(***************************************************************************)
\* `while not stop_event.is_set()'
VideoCheck ==
    /\ video = "check"
    /\ video' = IF stop_event THEN "dead" ELSE "recv"
    /\ UNCHANGED << sem, response, sock, stop_event, listener, arrived, disp,
                    spawned, wire, stopper, face_detect, is_patrol,
                    is_snapshot, patrol_sem, pthreads, callers,
                    stop_patrol_ret, snap, frame_loop, ctor, producer >>

\* `size, _ = sock_video.recvfrom_into(data)' on the video socket, whose
\* timeout is 0.5 s: socket.timeout goes back to the loop test, any other
\* socket.error ends the thread, a datagram goes on to the write
VideoRecv(outcome) ==
    /\ video = "recv"
    /\ video' = CASE outcome = "timeout" -> "check"
                  [] outcome = "error"   -> "dead"
                  [] outcome = "data"    -> "write"
    /\ UNCHANGED << sem, response, sock, stop_event, listener, arrived, disp,
                    spawned, wire, stopper, face_detect, is_patrol,
                    is_snapshot, patrol_sem, pthreads, callers,
                    stop_patrol_ret, snap, frame_loop, ctor, producer >>

\* `pipe_in.write(data[:size]); pipe_in.flush()': an exception (the decoder
\* is gone) ends the thread
VideoWrite(ok) ==
    /\ video = "write"
    /\ video' = IF ok THEN "check" ELSE "dead"
    /\ UNCHANGED << sem, response, sock, stop_event, listener, arrived, disp,
                    spawned, wire, stopper, face_detect, is_patrol,
                    is_snapshot, patrol_sem, pthreads, callers,
                    stop_patrol_ret, snap, frame_loop, ctor, producer >>

(***************************************************************************)
(* The constructor: DroneManager.__init__.  ctor.xml and ctor.dir say       *)
(* whether the detector file and the snapshot directory exist.             *)
(***************************************************************************)
\* lines 58-72: the socket is created and bound, `self.response = None',
\* `self.stop_event = threading.Event()'
CtorSocket ==
    /\ ctor.pc = "socket"
    /\ sock' = "open"
    /\ response' = NoData
    /\ stop_event' = FALSE
    /\ ctor' = [ctor EXCEPT !.pc = "listener"]
    /\ UNCHANGED << sem, listener, arrived, disp, spawned, wire, stopper,
                    face_detect, is_patrol, is_snapshot, patrol_sem, pthreads,
                    callers, stop_patrol_ret, snap, frame_loop, video,
                    producer >>

\* lines 73-83: the response listener is started; the patrol attributes
CtorStartListener ==
    /\ ctor.pc = "listener"
    /\ listener' = "check"
    /\ is_patrol' = FALSE
    /\ patrol_sem' = 1
    /\ ctor' = [ctor EXCEPT !.pc = "video"]
    /\ UNCHANGED << sem, response, sock, stop_event, arrived, disp, spawned,
                    wire, stopper, face_detect, is_snapshot, pthreads, callers,
                    stop_patrol_ret, snap, frame_loop, video, producer >>

\* lines 85-99: the decoder process is launched and the video receiver is
\* started
CtorStartVideo ==
    /\ ctor.pc = "video"
    /\ video' = "check"
    /\ ctor' = [ctor EXCEPT !.pc = "xml"]
    /\ UNCHANGED << sem, response, sock, stop_event, listener, arrived, disp,
                    spawned, wire, stopper, face_detect, is_patrol,
                    is_snapshot, patrol_sem, pthreads, callers,
                    stop_patrol_ret, snap, frame_loop, producer >>

\* variant: the detector file is not looked for
CtorCheckXml_Unchecked ==
    /\ ctor.pc = "xml"
    /\ face_detect' = FALSE
    /\ ctor' = [ctor EXCEPT !.pc = "dir"]
    /\ UNCHANGED << sem, response, sock, stop_event, listener, arrived, disp,
                    spawned, wire, stopper, is_patrol, is_snapshot, patrol_sem,
                    pthreads, callers, stop_patrol_ret, snap, frame_loop,
                    video, producer >>

\* lines 101-105: `if not Path(FACE_DETECT_XML_FILE).exists(): raise
\* ErrorNoFaceDetectXMLFile', else the classifier is loaded
CtorCheckXml ==
    /\ ctor.pc = "xml"
    /\ face_detect' = FALSE
    /\ ctor' = IF ctor.xml
                  THEN [ctor EXCEPT !.pc = "dir"]
                  ELSE [ctor EXCEPT !.pc = "aborted",
                                    !.error = "ErrorNoFaceDetectXMLFile"]
    /\ UNCHANGED << sem, response, sock, stop_event, listener, arrived, disp,
                    spawned, wire, stopper, is_patrol, is_snapshot, patrol_sem,
                    pthreads, callers, stop_patrol_ret, snap, frame_loop,
                    video, producer >>

\* lines 107-110: `if not Path(SNAPSHOT_IMAGE_FOLDER).exists(): raise
\* ErrorNoImageDir'
CtorCheckDir ==
    /\ ctor.pc = "dir"
    /\ is_snapshot' = FALSE
    /\ ctor' = IF ctor.dir
                  THEN [ctor EXCEPT !.pc = "sem"]
                  ELSE [ctor EXCEPT !.pc = "aborted", !.error = "ErrorNoImageDir"]
    /\ UNCHANGED << sem, response, sock, stop_event, listener, arrived, disp,
                    spawned, wire, stopper, face_detect, is_patrol, patrol_sem,
                    pthreads, callers, stop_patrol_ret, snap, frame_loop,
                    video, producer >>

\* lines 112-113: `self._command_semaphore = threading.Semaphore(1)'
CtorSemaphore ==
    /\ ctor.pc = "sem"
    /\ sem' = 1
    /\ ctor' = [ctor EXCEPT !.pc = "send"]
    /\ UNCHANGED << response, sock, stop_event, listener, arrived, disp,
                    spawned, wire, stopper, face_detect, is_patrol,
                    is_snapshot, patrol_sem, pthreads, callers,
                    stop_patrol_ret, snap, frame_loop, video, producer >>

\* lines 116-119: send_command('command'), send_command('streamon'),
\* set_speed(self.speed), one call per step; each starts its dispatch thread
\* and returns
CtorSend ==
    /\ ctor.pc = "send"
    /\ disp' = send_command(<< StartupCmds[spawned + 1] >>, TRUE)
    /\ spawned' = spawned + 1
    /\ ctor' = [ctor EXCEPT !.pc = IF spawned + 1 = Len(StartupCmds)
                                      THEN "done" ELSE "send"]
    /\ UNCHANGED << sem, response, sock, stop_event, listener, arrived, wire,
                    stopper, face_detect, is_patrol, is_snapshot, patrol_sem,
                    pthreads, callers, stop_patrol_ret, snap, frame_loop,
                    video, producer >>

(***************************************************************************)
(* The session after __init__: the socket bound, the listener started, the *)
(* three dispatch threads of lines 116-119 started.                        *)
(***************************************************************************)
Init ==
    /\ sem = 1
    /\ response = NoData
    /\ sock = "open"
    /\ stop_event = FALSE
    /\ listener = "check"
    /\ arrived = FALSE
    /\ disp = [ i \in 1 .. 3 |-> NewDispatch(StartupCmds[i], TRUE) ]
    /\ spawned = 3
    /\ wire = << >>
    /\ stopper = [pc |-> "idle", retry |-> 0, ret |-> "none", again |-> FALSE]
    /\ face_detect = FALSE
    /\ is_patrol = FALSE
    /\ is_snapshot = FALSE
    /\ patrol_sem = 1
    /\ pthreads = << >>
    /\ callers = [ c \in Callers |-> [pc |-> "idle", ret |-> "none"] ]
    /\ stop_patrol_ret = "none"
    /\ snap = [pc |-> "idle", retry |-> 0, ret |-> "none", checks |-> 0, idle |-> 0]
    /\ frame_loop = FrameIdle
    /\ producer = [pc |-> "read", size |-> 0]
    /\ video = "check"
    /\ ctor = [pc |-> "done", error |-> "none", xml |-> TRUE, dir |-> TRUE]

\* the session before __init__ runs: nothing is created yet; the detector
\* file and the snapshot directory exist or not
BootInit ==
    /\ sem = 0
    /\ response = NoData
    /\ sock = "none"
    /\ stop_event = FALSE
    /\ listener = "none"
    /\ arrived = FALSE
    /\ disp = << >>
    /\ spawned = 0
    /\ wire = << >>
    /\ stopper = [pc |-> "idle", retry |-> 0, ret |-> "none", again |-> FALSE]
    /\ face_detect = FALSE
    /\ is_patrol = FALSE
    /\ is_snapshot = FALSE
    /\ patrol_sem = 0
    /\ pthreads = << >>
    /\ callers = [ c \in Callers |-> [pc |-> "idle", ret |-> "none"] ]
    /\ stop_patrol_ret = "none"
    /\ snap = [pc |-> "idle", retry |-> 0, ret |-> "none", checks |-> 0, idle |-> 0]
    /\ frame_loop = FrameIdle
    /\ producer = [pc |-> "read", size |-> 0]
    /\ video = "none"
    /\ \E x, y \in BOOLEAN :
          ctor = [pc |-> "socket", error |-> "none", xml |-> x, dir |-> y]

\* the steps of the command channel and of what it depends on
DispatchStep ==
    \/ \E d \in Threads : DispAcquire(d)
    \/ \E d \in Threads : DispDropped(d)
    \/ \E d \in Threads : DispSend(d)
    \/ \E d \in Threads : DispPoll(d)
    \/ \E d \in Threads : DispRead(d)
    \/ \E d \in Threads : DispClear(d)
    \/ \E d \in Threads : DispRelease(d)

ListenerStep ==
    \/ ListenerCheck
    \/ \E u \in BOOLEAN : ListenerRecv(u)

StopStep ==
    \/ StopBegin
    \/ StopWait
    \/ StopClose
    \/ \E r \in BOOLEAN : StopKill(r)

PatrolStep ==
    \/ \E c \in Callers : PatrolCall(c)
    \/ \E c \in Callers : PatrolStart(c)
    \/ \E c \in Callers : PatrolSet(c)
    \/ \E t \in PThreads : PatrolAcquire(t)
    \/ \E t \in PThreads : PatrolEnter(t)
    \/ StopPatrolCall

SnapshotStep ==
    \/ SnapshotCall
    \/ SnapshotCheck

FrameStep ==
    \/ ProducerReadError
    \/ \E n \in ReadSizes : ProducerRead(n)
    \/ FrameCheck
    \/ FramePatrol
    \/ \E f \in Detections : FrameDetect(f)
    \/ FrameYield
    \/ \E on \in BOOLEAN : SetFaceDetect(on)

VideoStep ==
    \/ VideoCheck
    \/ \E o \in {"timeout", "error", "data"} : VideoRecv(o)
    \/ \E ok \in BOOLEAN : VideoWrite(ok)

CtorStep ==
    \/ CtorSocket
    \/ CtorStartListener
    \/ CtorStartVideo
    \/ CtorCheckXml
    \/ CtorCheckDir
    \/ CtorSemaphore
    \/ CtorSend

ExternalStep == \E c \in ExternalCmds, b \in BOOLEAN : ExternalSend(c, b)

Next ==
    \/ DispatchStep
    \/ ExternalStep
    \/ ListenerStep
    \/ ListenerError
    \/ StopStep
    \/ PatrolStep
    \/ SnapshotStep
    \/ FrameStep
    \/ VideoStep

Spec == Init /\ [][Next]_vars

(***************************************************************************)
(* The specifications the properties are checked under.  Each takes the    *)
(* threads a property is about together with every thread that writes what *)
(* those threads read; the threads left out write none of it.              *)
(***************************************************************************)
\* the command channel while the socket stays open.  Dispatches are started
\* by send_command(command, blocking) at any moment with either value of
\* blocking: the frame loop starts them only by such a call with
\* blocking=False (FrameDetect), the patrol loop starts none (PatrolEnter)
ChanNext == DispatchStep \/ ExternalStep \/ ListenerStep
ChanSpec == Init /\ [][ChanNext]_vars

\* the command channel with stop(), which closes the socket under the
\* dispatches and the listener
StopNext == DispatchStep \/ ExternalStep \/ ListenerStep \/ ListenerError \/ StopStep
StopSpec == Init /\ [][StopNext]_vars

\* one step of the dispatch thread d
DispThread(d) ==
    /\ d \in Threads
    /\ \/ DispAcquire(d)
       \/ DispDropped(d)
       \/ DispSend(d)
       \/ DispPoll(d)
       \/ DispRead(d)
       \/ DispClear(d)
       \/ DispRelease(d)

\* StopSpec under fair scheduling: a dispatch thread that can take a step
\* is given the processor eventually (the interpreter switches threads, and
\* time.sleep returns)
FairStopSpec == StopSpec /\ \A d \in 1 .. MaxDispatch : WF_vars(DispThread(d))

\* shutdown: stop() with the two receiver threads it is to end
ShutNext == ListenerStep \/ ListenerError \/ VideoStep \/ StopStep
ShutSpec == Init /\ [][ShutNext]_vars

\* ShutSpec under fair scheduling: the threads are given the processor, the
\* video socket's recvfrom_into returns (it has a timeout), and a call of
\* stop() runs to its end.  No datagram has to arrive on the command socket,
\* and recvfrom on it, which has no timeout, need not return after the
\* socket was closed by another thread
FairShutSpec ==
    /\ ShutSpec
    /\ WF_vars(ListenerCheck)
    /\ WF_vars(VideoStep)
    /\ WF_vars(StopWait \/ StopClose \/ \E r \in BOOLEAN : StopKill(r))

\* the dispatch threads the constructor starts: send_command(command) with
\* the default blocking=True, so none of them is dropped at the acquire
StartupDispatchStep ==
    \/ \E d \in Threads : DispAcquire(d)
    \/ \E d \in Threads : DispSend(d)
    \/ \E d \in Threads : DispPoll(d)
    \/ \E d \in Threads : DispRead(d)
    \/ \E d \in Threads : DispClear(d)
    \/ \E d \in Threads : DispRelease(d)

\* construction: the constructor with the threads it starts
BootNext == CtorStep \/ ListenerStep \/ VideoStep \/ StartupDispatchStep
BootSpec == BootInit /\ [][BootNext]_vars

\* BootSpec under fair scheduling: the constructor and the two receiver
\* threads are given the processor, and the video socket's recvfrom_into
\* returns (it has a timeout)
FairBootSpec ==
    /\ BootSpec
    /\ WF_vars(CtorStep)
    /\ WF_vars(ListenerCheck)
    /\ WF_vars(VideoStep)

\* the frame loop and patrol: the dispatches the frame loop starts are left
\* where they start
TrackNext == FrameStep \/ PatrolStep
TrackSpec == Init /\ [][TrackNext]_vars

\* patrol and snapshot
PatrolNext == PatrolStep \/ SnapshotStep
PatrolSpec == Init /\ [][PatrolNext]_vars

\* the frame loop alone, fed every rectangle of GoRects
GoNext ==
    \/ ProducerReadError
    \/ \E n \in ReadSizes : ProducerRead(n)
    \/ FrameCheck
    \/ FramePatrol
    \/ \E f \in GoDetections : FrameDetect(f)
    \/ FrameYield
    \/ \E on \in BOOLEAN : SetFaceDetect(on)
GoSpec == Init /\ [][GoNext]_vars

(***************************************************************************)
(* Properties of the command channel.                                      *)
(***************************************************************************)
\* C1: for every interleaving of dispatches at most one holds the command
\* permit, and every datagram put on the wire is put there by the one
\* dispatch that holds the permit before and after the send (so no other
\* send falls between a dispatch's send and its release).
C1_OneHolderSends ==
    /\ [](Cardinality(Holders) <= 1)
    /\ [][ wire' # wire =>
             \E d \in Threads :
                /\ Holders = {d}
                /\ disp[d].pc = "send"
                /\ wire' = Append(wire, disp[d].cmd)
                /\ d \in DOMAIN disp' /\ disp'[d].pc = "poll"
                /\ \A e \in DOMAIN disp' \ {d} :
                      disp'[e].pc \in {"acquire", "dropped"} ]_vars

\* C1 witness: a dispatch has sent and holds the permit while a blocking and
\* a non-blocking dispatch wait to be served
C1_Witness ==
    /\ \E d \in Threads : disp[d].pc = "poll"
    /\ \E d \in Threads : disp[d].pc = "acquire" /\ disp[d].blocking
    /\ \E d \in Threads : disp[d].pc = "acquire" /\ ~disp[d].blocking
    /\ Len(wire) >= 2

\* the step of thread d from its acquire
AcquireStepOf(d) ==
    /\ disp[d].pc = "acquire"
    /\ d \notin DOMAIN disp' \/ disp'[d] # disp[d]

\* C2: a non-blocking dispatch that runs its acquire while another dispatch
\* holds the permit does not wait (its step is enabled), goes to the dropped
\* exit, and from there to its end; neither step sends, touches the response
\* slot or changes the permit.
C2_NonBlockingDrop ==
    /\ [](\A d \in Threads :
            disp[d].pc = "acquire" /\ ~disp[d].blocking => ENABLED DispAcquire(d))
    /\ [][ \A d \in Threads :
             AcquireStepOf(d) /\ ~disp[d].blocking /\ Holders # {} =>
                /\ d \in DOMAIN disp' /\ disp'[d].pc = "dropped"
                /\ wire' = wire /\ response' = response /\ sem' = sem
                /\ Holders' = Holders ]_vars
    /\ [][ \A d \in Threads :
             disp[d].pc = "dropped" /\ (d \notin DOMAIN disp' \/ disp'[d] # disp[d]) =>
                /\ d \notin DOMAIN disp'
                /\ wire' = wire /\ response' = response /\ sem' = sem
                /\ Holders' = Holders ]_vars

\* C2 witness: a non-blocking dispatch was dropped while another one, which
\* has sent, holds the permit
C2_Witness ==
    /\ \E d \in Threads : disp[d].pc = "dropped" /\ ~disp[d].blocking
    /\ \E d \in Threads : disp[d].pc = "poll"

\* the polls a dispatch makes before it gives up: retry runs 0 .. SEND_RETRY + 1
GiveUpPolls == SEND_RETRY + 2

\* C3 as stated: a dispatch that holds the permit and to which no datagram
\* ever arrived ends with the result "no response".
C3_NoArrivalMeansNoResponse ==
    \A d \in Threads :
        disp[d].pc = "release" /\ ~arrived => disp[d].result = "none"

\* C3, amended: under fair scheduling every blocking dispatch gets the
\* permit and ends; one that saw no datagram ends with "no response" after
\* exactly GiveUpPolls polls (retry = SEND_RETRY + 1), unless its send raised
\* on the socket stop() closed, and then it ends with that exception.
C3_BlockingDispatchEnds ==
    /\ \A d \in 1 .. MaxDispatch :
          (d \in Threads /\ disp[d].blocking /\ disp[d].pc = "acquire")
             ~> (d \in Holders)
    /\ \A d \in 1 .. MaxDispatch : (d \in Threads) ~> (d \notin Threads)
    /\ [](\A d \in Threads :
            /\ disp[d].pc \in {"clear", "release"} /\ disp[d].result = "none"
                  => disp[d].retry = SEND_RETRY + 1
            /\ disp[d].retry <= SEND_RETRY + 1
            /\ disp[d].pc = "release" /\ ~arrived
                  => \/ disp[d].result = "none"
                     \/ disp[d].result = "raised" /\ sock = "closed" /\ disp[d].retry = 0)

\* C3 witness: a blocking dispatch gave up after its polls with no datagram
\* ever received, while another blocking dispatch still waits for the permit
C3_Witness ==
    /\ ~arrived
    /\ \E d \in Threads : /\ disp[d].blocking /\ disp[d].pc = "release"
                          /\ disp[d].result = "none"
    /\ \E d \in Threads : disp[d].blocking /\ disp[d].pc = "acquire"

\* C4: the permit count always equals one minus the number of dispatches
\* between acquire and release and is never above one; a dispatch that held
\* the permit ends only by the step that gives it back once; so with no
\* dispatch running the permit is free.
C4_PermitReleasedOnEveryExit ==
    /\ [](sem = 1 - Cardinality(Holders) /\ sem \in {0, 1})
    /\ [](Threads = {} => sem = 1)
    /\ [][ \A d \in Holders : d \notin DOMAIN disp' =>
             disp[d].pc = "release" /\ sem' = sem + 1 ]_vars

\* C4 witness: a dispatch whose send raised on the closed socket is about to
\* release, after another dispatch ended by a consumed response or a timeout
C4_Witness ==
    /\ sock = "closed"
    /\ \E d \in Threads : disp[d].pc = "release" /\ disp[d].result = "raised"
    /\ Len(wire) >= 1

(***************************************************************************)
(* Properties of the frame loop and of face tracking.                      *)
(***************************************************************************)
\* C5 as stated: a frame that finds detection enabled and the patrol
\* running has the patrol stopped and goes on to detection and to its yield.
C5_FramePreemptsPatrol ==
    frame_loop.preempt # "none" =>
        frame_loop.preempt = "stopped" /\ frame_loop.pc \in {"detect", "yield"}

\* the command C6 states for a rectangle: each axis by its own band
C6_Stated(r) ==
    LET left2  == FRAME_X - (2 * r.x + r.w)   \* twice: centre left of frame centre
        above2 == FRAME_Y - (2 * r.y + r.h)   \* twice: centre above frame centre
        area   == r.w * r.h
        lateral  == CASE left2 > 2 * 30   -> 30
                      [] -left2 > 2 * 30  -> -30
                      [] OTHER            -> 0
        vertical == CASE above2 > 2 * 15  -> 30
                      [] -above2 > 2 * 15 -> -30
                      [] OTHER            -> 0
        forward  == CASE 100 * area > 30 * FRAME_AREA -> -30
                      [] 100 * area < 2 * FRAME_AREA  -> 30
                      [] OTHER                        -> 0
    IN  Cmd("go", << forward, lateral, vertical, DEFAULT_SPEED >>)

\* C6: for every detection rectangle inside the frame the command the frame
\* loop hands to send_command, and the command of the thread it starts, is
\* 'go X Y Z S' with Y, Z and X decided by the lateral, vertical and area
\* bands as C6_Stated says, and S the cruise speed.
C6_CorrectiveCommand ==
    frame_loop.pc = "yield" /\ frame_loop.faces # << >> =>
        /\ Len(frame_loop.sent) = 1
        /\ frame_loop.sent[1].cmd = C6_Stated(frame_loop.faces[1])
        /\ spawned \in Threads /\ disp[spawned].cmd = C6_Stated(frame_loop.faces[1])

\* C6 witness: a rectangle with its centre exactly 30 px left of the frame
\* centre and 15 px above it, of exactly 30% of the frame area, got 'go 0 0 0 S'
C6_Witness ==
    /\ frame_loop.pc = "yield" /\ frame_loop.faces # << >>
    /\ LET r == frame_loop.faces[1]
       IN  /\ 2 * r.x + r.w = FRAME_X - 60
           /\ 2 * r.y + r.h = FRAME_Y - 30
           /\ r.w * r.h * 100 = 30 * FRAME_AREA
    /\ frame_loop.sent[1].cmd = Cmd("go", << 0, 0, 0, DEFAULT_SPEED >>)

\* C7: a frame hands at most one command to send_command, always
\* non-blocking and always the command of the first rectangle: exactly one
\* when detection was enabled and the detector returned a rectangle, none
\* otherwise; with detection disabled the frame neither detects nor stops
\* the patrol; and each command starts exactly one dispatch thread.
C7_OneCommandPerFrame ==
    /\ [](/\ Len(frame_loop.sent) <= 1
          /\ frame_loop.pc = "yield" =>
                Len(frame_loop.sent) =
                   IF frame_loop.enabled /\ frame_loop.faces # << >> THEN 1 ELSE 0
          /\ \A i \in DOMAIN frame_loop.sent :
                /\ frame_loop.sent[i].blocking = FALSE
                /\ frame_loop.sent[i].cmd = GoCommand(frame_loop.faces[1])
          /\ ~frame_loop.enabled =>
                /\ frame_loop.preempt = "none"
                /\ frame_loop.faces = << >>
                /\ frame_loop.sent = << >>)
    /\ [][ spawned' # spawned =>
             /\ frame_loop.pc = "detect" /\ frame_loop'.pc = "yield"
             /\ spawned' = spawned + 1
             /\ Len(frame_loop'.sent) = 1
             /\ disp' = send_command(<< frame_loop'.sent[1].cmd >>, FALSE) ]_vars
    /\ [][ frame_loop.pc = "next" /\ producer.pc = "yield" /\ ~face_detect
             /\ frame_loop' # frame_loop =>
             frame_loop'.pc = "yield" /\ is_patrol' = is_patrol /\ spawned' = spawned ]_vars

\* C7 witness: the detector returned two rectangles and one command, that of
\* the first, was handed over
C7_Witness ==
    /\ frame_loop.pc = "yield"
    /\ Len(frame_loop.faces) = 2
    /\ Len(frame_loop.sent) = 1
    /\ frame_loop.sent[1].cmd = GoCommand(RectB)
    /\ GoCommand(RectB) # GoCommand(RectA)

(***************************************************************************)
(* Properties of snapshot and patrol.                                      *)
(***************************************************************************)
\* C8: snapshot() returns True at its first read of is_patrol that finds it
\* clear, with no sleep when that is the first read; it returns False
\* exactly when all SNAPSHOT_RETRY reads of its window found it set.
C8_SnapshotResult ==
    /\ snap.checks <= SNAPSHOT_RETRY
    /\ snap.retry = snap.checks - snap.idle         \* one sleep per read that found it set
    /\ snap.pc = "loop" => snap.idle = 0
    /\ snap.ret = "true" => snap.idle = 1
    /\ snap.ret = "false" => snap.idle = 0 /\ snap.checks = SNAPSHOT_RETRY
    /\ snap.ret \in {"true", "false"} /\ snap.idle = 0 => snap.ret = "false"

\* C8 witness: snapshot() returned False, the patrol never having stopped
C8_Witness == snap.ret = "false" /\ snap.checks = SNAPSHOT_RETRY /\ is_patrol /\ is_snapshot

\* C9 as stated: a patrol activity that took the patrol permit runs the
\* maneuver cycle for as long as it is not stopped (and nothing can stop it:
\* the stop signal patrol_event is None), so the only patrol activity that
\* ends is one that was refused the permit.
C9_PatrolRunsCycle ==
    \A t \in PThreads : pthreads[t].pc = "done" => pthreads[t].end = "refused"

\* C10: at no time two patrol activities are past the acquire of the patrol
\* permit; patrol() that finds is_patrol set starts no thread and changes
\* nothing; a thread is started only by a call that found is_patrol clear.
C10_OnePatrolLoop ==
    /\ [](Cardinality({ t \in PThreads : pthreads[t].pc = "with" }) <= 1)
    /\ [][ \A c \in Callers :
             callers[c].pc = "idle" /\ is_patrol /\ callers'[c] # callers[c] =>
                /\ callers'[c] = [pc |-> "idle", ret |-> "already"]
                /\ pthreads' = pthreads /\ is_patrol' = is_patrol
                /\ patrol_sem' = patrol_sem ]_vars
    /\ [][ \A c \in Callers :
             callers[c].pc = "idle" /\ callers'[c].pc = "start" => ~is_patrol ]_vars
    /\ [][ pthreads' # pthreads /\ Len(pthreads') > Len(pthreads) =>
             \E c \in Callers : callers[c].pc = "start" /\ callers'[c].pc = "set" ]_vars

\* C10 witness: two calls raced past the check; one thread holds the
\* permit, the other was refused; a later call found is_patrol set
C10_Witness ==
    /\ \E t \in PThreads : pthreads[t].pc = "with"
    /\ \E t \in PThreads : pthreads[t].end = "refused"
    /\ \E c \in Callers : callers[c].ret = "already"

\* C11 as stated: a call of stop_patrol() returns, with the patrol flag
\* clear when the call found it set; it never ends by an exception.
C11_StopPatrolReturnsIdle ==
    /\ stop_patrol_ret # "raised"
    /\ stop_patrol_ret = "stopped" => ~is_patrol \/ \E c \in Callers : callers[c].pc = "set"

(***************************************************************************)
(* Properties of shutdown and of construction.                             *)
(***************************************************************************)
\* C12 as stated: a call of stop() made after an earlier call has ended
\* returns without an exception, with the stop signal set and the socket
\* closed as the first call left them.
C12_StopIdempotent ==
    [][ stopper.again /\ stopper.pc = "kill" /\ stopper'.pc = "idle" =>
          stopper'.ret = "returned" /\ stop_event' /\ sock' = "closed" ]_vars

\* C13: construction aborts exactly at the first failing check, with the
\* error of that check (the detector file is looked for first); when the
\* file or the directory is missing the constructor never gets past the
\* checks, no dispatch thread is started and nothing is sent; dispatch
\* threads exist only once both checks passed.
C13_FatalStartupError ==
    /\ ctor.error # "none" <=> ctor.pc = "aborted"
    /\ ctor.pc = "aborted" =>
          /\ ~ctor.xml \/ ~ctor.dir
          /\ ctor.error = IF ~ctor.xml THEN "ErrorNoFaceDetectXMLFile"
                                      ELSE "ErrorNoImageDir"
    /\ ~ctor.xml \/ ~ctor.dir =>
          /\ ctor.pc \notin {"sem", "send", "done"}
          /\ spawned = 0 /\ disp = << >> /\ wire = << >>
    /\ ~ctor.xml => ctor.pc # "dir"
    /\ spawned > 0 => ctor.xml /\ ctor.dir /\ ctor.pc \in {"send", "done"}

\* C13 witness: construction aborted on the missing snapshot directory, the
\* detector file being there, after the listener had received a datagram
C13_Witness ==
    /\ ctor.pc = "aborted" /\ ctor.error = "ErrorNoImageDir" /\ ctor.xml
    /\ arrived /\ wire = << >>

\* the place of a start-up command in the constructor's order
StartupIndex(c) == CHOOSE i \in DOMAIN StartupCmds : StartupCmds[i] = c

\* C14 as stated: the start-up commands are on the wire in the order the
\* constructor submitted them.
C14_StartupOrder ==
    \A i, j \in DOMAIN wire :
        /\ i < j
        /\ \E k \in DOMAIN StartupCmds : StartupCmds[k] = wire[i]
        /\ \E k \in DOMAIN StartupCmds : StartupCmds[k] = wire[j]
        => StartupIndex(wire[i]) < StartupIndex(wire[j])

(***************************************************************************)
(* Properties of the response slot.                                        *)
(***************************************************************************)
\* C15 as stated: the datagram a dispatch reads as its result arrived
\* after that dispatch sent its command.
C15_ResponseAfterSend ==
    [][ \A d \in Threads :
          /\ disp[d].pc = "read"
          /\ d \in DOMAIN disp' /\ disp'[d].pc = "clear" /\ disp'[d].result = "data"
          => ~response.before_send ]_vars

\* C19 as stated: what a dispatch clears from the slot is what it read: a
\* dispatch that read a datagram clears that datagram, and one that read an
\* empty slot ("no response") clears an empty slot.
C19_ClearsWhatItRead ==
    [][ \A d \in Threads :
          /\ disp[d].pc = "clear"
          /\ d \in DOMAIN disp' /\ disp'[d].pc = "release"
          /\ disp[d].result = "none"
          => response = NoData ]_vars

(***************************************************************************)
(* Properties of the receiver threads.                                     *)
(***************************************************************************)
\* C16 as stated: once the stop signal is set, the response listener and
\* the video receiver both end.
C16_ReceiversTerminate ==
    stop_event ~> (listener = "dead" /\ video = "dead")

\* C17 as stated: when stop_patrol() has been called on a run and the
\* patrol activities have ended, the session is Idle with the patrol permit
\* free, so that the next patrol() starts a run that gets the permit.
C17_NextRunCanStart ==
    /\ stop_patrol_ret \in {"stopped", "raised"}
    /\ \A t \in PThreads : pthreads[t].pc = "done"
    /\ \A c \in Callers : callers[c].pc = "idle"
    => ~is_patrol /\ patrol_sem = 1

\* C18 as stated: video_binary_generator never ends by an error, whatever
\* its reads return, and a frame it yields has FRAME_X * FRAME_Y * 3 bytes.
C18_ProducerNeverFails ==
    /\ producer.pc # "crashed"
    /\ producer.pc = "yield" => producer.size = FRAME_X * FRAME_Y * 3

\* C20 as stated: once construction has aborted, the threads the
\* constructor started end: neither the response listener nor the video
\* receiver stays alive.
C20_AbortLeavesNothingRunning ==
    (ctor.pc = "aborted") ~>
        (listener \in {"none", "dead"} /\ video \in {"none", "dead"})

=============================================================================
